---- MODULE Spec2Model ----
(***************************************************************************)
(* State-machine model of the Tektronix MSO 4-Series scope session         *)
(* (class MSO4 of software/chipwhisperer/capture/scopes/MSO4.py): the      *)
(* connect / disconnect lifecycle, the waveform-setting cache, arm() and   *)
(* the polling capture().  Every public method is one action, except       *)
(* capture(), whose two polling loops are one action per loop iteration so *)
(* that the wall clock can advance between polls.                          *)
(*                                                                         *)
(* The pyvisa transport and the instrument behind it are the environment:  *)
(* a call on the transport either reaches the wire (and is appended to     *)
(* `traffic`, the wire log of the operation in progress) or raises.        *)
(***************************************************************************)
EXTENDS Integers, Sequences, FiniteSets, TLC

\* ------------------------------------------------------------------ bounds
\* Largest capture timeout (clock ticks) the timeout setter is given.
MaxTimeout == 1
\* Most polls capture() gets through between two ticks of the wall clock.
MaxPolls == 2

\* Room in the wire log of one capture(): more than a capture() that honours
\* its timeout can fill (4 read-through queries, MaxPolls polls at each clock
\* value up to the deadline and one past it, the forced trigger, the read).
LogCap == 8 + MaxPolls * (MaxTimeout + 2)

\* ------------------------------------------------------- class attributes
sources == {"ch1", "ch2", "ch3", "ch4"}
modes == {"sample", "peakdetect", "hires", "average", "envelope"}
wfm_encodings == {"binary", "ascii"}
wfm_binary_formats == {"ri", "rp", "fp"}
wfm_byte_nrs == {1, 2, 8}
wfm_byte_orders == {"lsb", "msb"}

\* self._timeout = 2.0 in __init__: the wall clock ticks every two seconds.
DefaultTimeout == 1

\* Retry budget of arm(): range(10).
ArmRetries == 10

\* The decode table of capture(): byte width -> binary format -> struct code.
\* A missing key is a KeyError, modelled as the code "".
types(nr, fmt) ==
    CASE nr = 1 /\ fmt = "ri" -> "b"
      [] nr = 1 /\ fmt = "rp" -> "B"
      [] nr = 2 /\ fmt = "ri" -> "h"
      [] nr = 2 /\ fmt = "rp" -> "H"
      [] nr = 4 /\ fmt = "ri" -> "i"
      [] nr = 4 /\ fmt = "rp" -> "I"
      [] nr = 4 /\ fmt = "fp" -> "f"
      [] nr = 8 /\ fmt = "ri" -> "q"
      [] nr = 8 /\ fmt = "rp" -> "Q"
      [] nr = 8 /\ fmt = "fp" -> "d"
      [] OTHER -> ""

\* ------------------------------------------------------ string primitives
\* str.lower() on the strings that occur in the model.
lower(s) ==
    CASE s = "BINARY" -> "binary"
      [] s = "ASCII" -> "ascii"
      [] s = "RI" -> "ri"
      [] s = "RP" -> "rp"
      [] s = "FP" -> "fp"
      [] s = "LSB" -> "lsb"
      [] s = "MSB" -> "msb"
      [] s = "CH1" -> "ch1"
      [] s = "CH2" -> "ch2"
      [] s = "MATH1" -> "math1"
      [] s = "SAMPLE" -> "sample"
      [] s = "HIRES" -> "hires"
      [] s = "ARMED" -> "armed"
      [] s = "READY" -> "ready"
      [] s = "TRIGGER" -> "trigger"
      [] s = "SAVE" -> "save"
      [] s = "NONE" -> "none"
      [] OTHER -> s

\* The instrument answers in upper case.
upper(s) ==
    CASE s = "binary" -> "BINARY"
      [] s = "ascii" -> "ASCII"
      [] s = "ri" -> "RI"
      [] s = "rp" -> "RP"
      [] s = "fp" -> "FP"
      [] s = "lsb" -> "LSB"
      [] s = "msb" -> "MSB"
      [] OTHER -> s

\* A response line is a sequence of tokens; "\n" is the line terminator.
IsSpace(t) == t = "\n" \/ t = " "

\* str.strip(): drop the whitespace tokens at both ends.
RECURSIVE lstrip(_)
lstrip(r) == IF r # <<>> /\ IsSpace(Head(r)) THEN lstrip(Tail(r)) ELSE r

RECURSIVE rstrip(_)
rstrip(r) ==
    IF r # <<>> /\ IsSpace(r[Len(r)]) THEN rstrip(SubSeq(r, 1, Len(r) - 1)) ELSE r

strip(r) == rstrip(lstrip(r))

\* The text of a stripped one-token line ("" for an empty line).
text(r) == IF r = <<>> THEN "" ELSE r[1]

\* `word in line.lower()` for a line of tokens.
contains(r, word) == \E i \in 1..Len(r) : lower(r[i]) = word

\* str.split(','): the fields between the "," tokens.
RECURSIVE split(_)
split(r) ==
    IF \A i \in 1..Len(r) : r[i] # ","
    THEN <<r>>
    ELSE LET k == CHOOSE i \in 1..Len(r) :
                      r[i] = "," /\ \A j \in 1..(i - 1) : r[j] # ","
         IN  <<SubSeq(r, 1, k - 1)>> \o split(SubSeq(r, k + 1, Len(r)))

\* int(s) and f'{n}' for the numbers on the wire (byte widths, the record
\* length); int() of anything else raises, modelled as -1.
int(s) ==
    CASE s = "1" -> 1
      [] s = "2" -> 2
      [] s = "4" -> 4
      [] s = "8" -> 8
      [] s = "1000" -> 1000
      [] OTHER -> -1

str(n) ==
    CASE n = 1 -> "1"
      [] n = 2 -> "2"
      [] n = 4 -> "4"
      [] n = 8 -> "8"
      [] n = 1000 -> "1000"
      [] OTHER -> "?"


\* ------------------------------------------------------------------ state
VARIABLES
    self,       \* the MSO4 object: its attributes (rm and sc as handle states)
    inst,       \* the instrument's waveform-output settings (environment)
    traffic,    \* commands and queries the operation in progress put on the wire
    last,       \* the last operation: name, argument, outcome, return value
    unread,     \* history: the waveform settings neither read nor set since
                \* the last _clear_cache()
    pc,         \* where capture() is: "idle", "trigwait" or "datawait"
    timeout,    \* capture()'s local `timeout` flag
    elapsed,    \* wall-clock ticks since capture()'s `starttime`
    polls,      \* polls capture() made since the last tick of the clock
    arm_done    \* history: arm() has returned in this connected session and
                \* no capture() was called since

vars == <<self, inst, traffic, last, unread, pc, timeout, elapsed, polls, arm_done>>

\* MSO4.__init__
NewMSO4 ==
    [ rm |-> "none",
      sc |-> "none",
      _src |-> "",
      _mode |-> "",
      _record_len |-> 0,
      _timeout |-> DefaultTimeout,
      _cached_wfm_byte_nr |-> 0,
      _cached_wfm_format |-> "",
      _cached_wfm_order |-> "",
      _cached_wfm_encoding |-> "",
      wfm_data_points |-> <<>>,
      connectStatus |-> FALSE ]

\* ------------------------------------------------------------ environment
\* The instrument as it powers up (programmer manual defaults).
InstDefault == [enc |-> "binary", fmt |-> "ri", ord |-> "msb", nr |-> "1"]

\* What a command does to the instrument's settings.
InstWrite(i, c, a) ==
    CASE c = "WFMOutpre:ENCdg" -> [i EXCEPT !.enc = lower(a)]
      [] c = "WFMOutpre:BN_Fmt" -> [i EXCEPT !.fmt = lower(a)]
      [] c = "WFMOutpre:BYT_Or" -> [i EXCEPT !.ord = lower(a)]
      [] c = "WFMOutpre:BYT_Nr" -> [i EXCEPT !.nr = a]
      [] OTHER -> i

\* The instrument's answer to a settings query: a line, newline-terminated.
Resp(i, c) ==
    CASE c = "WFMOutpre:ENCdg?" -> <<upper(i.enc), "\n">>
      [] c = "WFMOutpre:BN_Fmt?" -> <<upper(i.fmt), "\n">>
      [] c = "WFMOutpre:BYT_Or?" -> <<upper(i.ord), "\n">>
      [] c = "WFMOutpre:BYT_Nr?" -> <<i.nr, "\n">>
      [] c = "HORizontal:MODe:RECOrdlength?" -> <<"1000", "\n">>
      [] OTHER -> <<"\n">>

\* ------------------------------------------------- execution of a handler
\* A handler runs on a record: the object, the instrument, the wire log, the
\* exception in flight ("ok" for none) and failAt, the position in the wire
\* log of the transport call the environment makes raise (0 for none).
Exec(o, i, t, f) ==
    [self |-> o, inst |-> i, traffic |-> t, err |-> "ok", failAt |-> f,
     exc |-> "VisaIOError"]

raise(s, e) == IF s.err # "ok" THEN s ELSE [s EXCEPT !.err = e]

\* self.sc.write(...) / self.sc.query(...) / self.sc.query_binary_values(...):
\* on sc = None an AttributeError, on a closed session pyvisa's InvalidSession,
\* neither reaching the wire; on an open session the call goes out.
Call(s, c, a, e) ==
    IF s.err # "ok" THEN s
    ELSE IF s.self.sc = "none" THEN raise(s, "AttributeError")
    ELSE IF s.self.sc = "closed" THEN raise(s, "InvalidSession")
    ELSE LET t == Append(s.traffic, [c |-> c, a |-> a, e |-> e])
         IN  IF Len(t) = s.failAt
             THEN [s EXCEPT !.traffic = t, !.err = s.exc]
             ELSE [s EXCEPT !.traffic = t, !.inst = InstWrite(@, c, a)]

\* MSO4.dis: close the transport, close the resource manager, clear the flag.
\* cf names the close() the environment makes raise: "sc", "rm" or "none".
\* Run from an except clause, dis() replaces the exception in flight if it
\* raises itself and lets it through otherwise.
dis(s, cf) ==
    IF s.self.sc = "none" THEN [s EXCEPT !.err = "AttributeError"]
    ELSE IF cf = "sc" /\ s.self.sc = "open" THEN [s EXCEPT !.err = "VisaIOError/close"]
    ELSE IF cf = "rm" /\ s.self.rm = "open"
         THEN [s EXCEPT !.self.sc = "closed", !.err = "VisaIOError/close"]
    ELSE [s EXCEPT !.self.sc = "closed", !.self.rm = "closed",
                   !.self.connectStatus = FALSE]

\* ---------------------------------------------- waveform setting accessors
\* Each getter returns the object's cache entry after the call (when no
\* exception is in flight).
get_wfm_encoding(s) ==
    IF s.err # "ok" \/ s.self._cached_wfm_encoding # "" THEN s
    ELSE LET q == Call(s, "WFMOutpre:ENCdg?", "", "")
         IN  IF q.err # "ok" THEN q
             ELSE [q EXCEPT !.self._cached_wfm_encoding =
                                lower(text(strip(Resp(q.inst, "WFMOutpre:ENCdg?"))))]

set_wfm_encoding(s, value) ==
    IF s.err # "ok" THEN s
    ELSE IF lower(value) \notin wfm_encodings THEN raise(s, "ValueError")
    ELSE IF s.self._cached_wfm_encoding = value THEN s
    ELSE Call([s EXCEPT !.self._cached_wfm_encoding = value],
              "WFMOutpre:ENCdg", value, "")

get_wfm_binary_format(s) ==
    IF s.err # "ok" \/ s.self._cached_wfm_format # "" THEN s
    ELSE LET q == Call(s, "WFMOutpre:BN_Fmt?", "", "")
         IN  IF q.err # "ok" THEN q
             ELSE [q EXCEPT !.self._cached_wfm_format =
                                lower(text(strip(Resp(q.inst, "WFMOutpre:BN_Fmt?"))))]

set_wfm_binary_format(s, value) ==
    IF s.err # "ok" THEN s
    ELSE IF lower(value) \notin wfm_binary_formats THEN raise(s, "ValueError")
    ELSE IF s.self._cached_wfm_format = value THEN s
    ELSE Call([s EXCEPT !.self._cached_wfm_format = value],
              "WFMOutpre:BN_Fmt", value, "")

\* int() of a line that is no number raises ValueError and leaves the cache.
get_wfm_byte_nr(s) ==
    IF s.err # "ok" \/ s.self._cached_wfm_byte_nr # 0 THEN s
    ELSE LET q == Call(s, "WFMOutpre:BYT_Nr?", "", "")
             n == int(text(strip(Resp(q.inst, "WFMOutpre:BYT_Nr?"))))
         IN  IF q.err # "ok" THEN q
             ELSE IF n < 0 THEN raise(q, "ValueError")
             ELSE [q EXCEPT !.self._cached_wfm_byte_nr = n]

\* Mutant: the byte width is stored and written before it is validated.
set_wfm_byte_nr_late_check(s, value) ==
    IF s.err # "ok" THEN s
    ELSE IF ~value.isint THEN raise(s, "ValueError")
    ELSE IF s.self._cached_wfm_byte_nr = value.n THEN s
    ELSE LET w == Call([s EXCEPT !.self._cached_wfm_byte_nr = value.n],
                       "WFMOutpre:BYT_Nr", str(value.n), "")
         IN  IF value.n \notin wfm_byte_nrs THEN raise(w, "ValueError") ELSE w

\* The argument is [isint, n]: isinstance(value, int), and the number.
set_wfm_byte_nr(s, value) ==
    IF s.err # "ok" THEN s
    ELSE IF ~value.isint THEN raise(s, "ValueError")
    ELSE IF value.n \notin wfm_byte_nrs THEN raise(s, "ValueError")
    ELSE IF s.self._cached_wfm_byte_nr = value.n THEN s
    ELSE Call([s EXCEPT !.self._cached_wfm_byte_nr = value.n],
              "WFMOutpre:BYT_Nr", str(value.n), "")

get_wfm_byte_order(s) ==
    IF s.err # "ok" \/ s.self._cached_wfm_order # "" THEN s
    ELSE LET q == Call(s, "WFMOutpre:BYT_Or?", "", "")
         IN  IF q.err # "ok" THEN q
             ELSE [q EXCEPT !.self._cached_wfm_order =
                                lower(text(strip(Resp(q.inst, "WFMOutpre:BYT_Or?"))))]

set_wfm_byte_order(s, value) ==
    IF s.err # "ok" THEN s
    ELSE IF lower(value) \notin wfm_byte_orders THEN raise(s, "ValueError")
    ELSE IF s.self._cached_wfm_order = value THEN s
    ELSE Call([s EXCEPT !.self._cached_wfm_order = value],
              "WFMOutpre:BYT_Or", value, "")

\* src: the getter always queries; the setter stores, then writes.
get_src(s) == Call(s, "DATa:SOUrce?", "", "")

set_src(s, value) ==
    IF s.err # "ok" THEN s
    ELSE IF lower(value) \notin sources THEN raise(s, "ValueError")
    ELSE Call([s EXCEPT !.self._src = value], "DATa:SOUrce", value, "")

get_mode(s) == Call(s, "ACQuire:MODe?", "", "")

set_mode(s, value) ==
    IF s.err # "ok" THEN s
    ELSE IF lower(value) \notin modes THEN raise(s, "ValueError")
    ELSE Call([s EXCEPT !.self._mode = value], "ACQuire:MODe", value, "")

\* Mutant: _clear_cache forgets the binary format.
clear_cache_partial(o) ==
    [o EXCEPT !._cached_wfm_byte_nr = 0,
              !._cached_wfm_order = "",
              !._cached_wfm_encoding = ""]

\* MSO4._clear_cache
clear_cache(o) ==
    [o EXCEPT !._cached_wfm_byte_nr = 0,
              !._cached_wfm_format = "",
              !._cached_wfm_order = "",
              !._cached_wfm_encoding = ""]


\* ---------------------------------------------------------------- connect
\* Identity lines the instrument at the address may answer with.
IdnLines ==
    { <<"TEKTRONIX", ",", "MSO44", ",", "C019654", ",", "FV:2.0.3.950", "\n">>,
      <<"TEKTRONIX", ",", "MSO46", ",", "C019655", ",", "FV:2.0.3.950", "\n">>,
      <<"RIGOL", ",", "MSO44", ",", "C019654", ",", "FV:2.0.3.950", "\n">>,
      <<"TEKTRONIX", ",", "MSO24", ",", "C019654", ",", "FV:2.0.3.950", "\n">>,
      <<"TEKTRONIX", ",", "MSO44", ",", "C019654", "\n">>,
      <<"\n">> }

\* MSO4.con with MSO4._id_scope inlined.  opened: whether open_resource
\* returns; idn: the identity line; cf: see dis.
con(s, ip, opened, idn, cf) ==
    IF ip = "" THEN raise(s, "ValueError/ip")
    ELSE IF ~opened THEN raise([s EXCEPT !.self.rm = "open"], "VisaIOError")
    ELSE
      LET o == [s EXCEPT !.self.rm = "open", !.self.sc = "open"]
          q == Call(o, "*IDN?", "", "")
          f == split(idn)
          e == Call(Call(q, "DESE", "255", ""), "*CLS", "", "")
          w == set_wfm_byte_nr(
                 set_wfm_byte_order(
                   set_wfm_binary_format(set_wfm_encoding(e, "binary"), "ri"),
                   "lsb"),
                 [isint |-> TRUE, n |-> 2])
          r == Call(w, "HORizontal:MODe:RECOrdlength?", "", "")
          n == int(text(strip(Resp(r.inst, "HORizontal:MODe:RECOrdlength?"))))
          l == IF r.err # "ok" THEN r
               ELSE IF n < 0 THEN raise(r, "ValueError")
               ELSE [r EXCEPT !.self._record_len = n]
          d == Call(Call(l, "DATA:START", "1", ""), "DATA:STOP", str(n), "")
      IN  IF q.err # "ok" THEN dis(q, cf)
          ELSE IF Len(f) # 4 THEN raise(q, "OSError/idn")
          ELSE IF f[1] # <<"TEKTRONIX">> THEN dis(raise(q, "OSError/vendor"), cf)
          ELSE IF f[2] \notin {<<"MSO44">>, <<"MSO46">>}
               THEN dis(raise(q, "OSError/model"), cf)
          ELSE IF e.err # "ok" THEN dis(e, cf)
          ELSE IF d.err # "ok" THEN dis(d, cf)
          ELSE [d EXCEPT !.self.connectStatus = TRUE]

\* -------------------------------------------------------------------- arm
\* The instrument's answer to the j-th ACQuire:STATE? poll when it reports
\* armed at poll k (k = 0: never).
AcqLine(j, k) == IF j = k THEN <<"1", "\n">> ELSE <<"0", "\n">>

\* The for loop of arm(), from iteration j on.
RECURSIVE arm_loop(_, _, _)
arm_loop(s, j, k) ==
    IF s.err # "ok" THEN s
    ELSE IF j > ArmRetries THEN raise(s, "OSError/arm")
    ELSE LET q == Call(s, "ACQuire:STATE?", "", "")
         IN  IF q.err # "ok" THEN q
             ELSE IF text(strip(AcqLine(j, k))) = "1" THEN q
             ELSE arm_loop(q, j + 1, k)

\* MSO4.arm
arm(s, k, cf) ==
    IF s.self.connectStatus = FALSE THEN raise(s, "OSError/notconnected")
    ELSE LET a == arm_loop(Call(s, "ACQuire:STATE", "1", ""), 1, k)
         IN  IF a.err # "ok" THEN dis(a, cf) ELSE a


\* ---------------------------------------------------------------- capture
\* capture() up to `starttime = now()`: the two precondition checks.  The
\* list handed to all() is built from the four getters, in this order.
capture_check(s) ==
    IF s.self._src = "" THEN raise(s, "ValueError/src")
    ELSE LET g == get_wfm_encoding(
                    get_wfm_byte_order(
                      get_wfm_binary_format(get_wfm_byte_nr(s))))
         IN  IF g.err # "ok" THEN g
             ELSE IF \/ g.self._cached_wfm_byte_nr = 0
                     \/ g.self._cached_wfm_format = ""
                     \/ g.self._cached_wfm_order = ""
                     \/ g.self._cached_wfm_encoding = ""
                  THEN raise(g, "ValueError/config")
             ELSE g

\* Mutant: the decoded samples are appended to the waveform buffer.
capture_read_append(s, data) ==
    LET g1 == get_wfm_encoding(s)
        g2 == get_wfm_binary_format(get_wfm_byte_nr(g1))
        code == types(g2.self._cached_wfm_byte_nr, g2.self._cached_wfm_format)
        g3 == get_wfm_byte_order(g2)
        c == Call(g3, "CURVE?", code,
                  IF g3.self._cached_wfm_order = "msb" THEN "big" ELSE "little")
    IN  IF g1.err # "ok" THEN g1
        ELSE IF g1.self._cached_wfm_encoding # "binary"
             THEN raise(g1, "IOError/encoding")
        ELSE IF g2.err # "ok" THEN g2
        ELSE IF code = "" THEN raise(g2, "KeyError")
        ELSE IF c.err # "ok" THEN c
        ELSE [c EXCEPT !.self.wfm_data_points = @ \o data]

\* capture() from `types = {...}` on: the waveform read.  data: the samples
\* pyvisa decodes from the instrument's answer.
capture_read(s, data) ==
    LET g1 == get_wfm_encoding(s)
        g2 == get_wfm_binary_format(get_wfm_byte_nr(g1))
        code == types(g2.self._cached_wfm_byte_nr, g2.self._cached_wfm_format)
        g3 == get_wfm_byte_order(g2)
        c == Call(g3, "CURVE?", code,
                  IF g3.self._cached_wfm_order = "msb" THEN "big" ELSE "little")
    IN  IF g1.err # "ok" THEN g1
        ELSE IF g1.self._cached_wfm_encoding # "binary"
             THEN raise(g1, "IOError/encoding")
        ELSE IF g2.err # "ok" THEN g2
        ELSE IF code = "" THEN raise(g2, "KeyError")
        ELSE IF c.err # "ok" THEN c
        ELSE [c EXCEPT !.self.wfm_data_points = data]

\* Mutant: starttime is sampled again in every iteration, so diff is always 0.
expired_per_iteration(diff, limit) == 0 > limit

\* `diff.total_seconds() > self._timeout`
expired(diff, limit) == diff > limit

\* ---------------------------------------------------------------- actions
\* An operation returns or raises: the object, the instrument and the wire
\* log are as the handler left them.
Settings == {"wfm_encoding", "wfm_binary_format", "wfm_byte_nr", "wfm_byte_order"}

\* The settings still unread since the last _clear_cache() once op has run.
Unread(op) ==
    CASE op = "_clear_cache" -> Settings
      [] op \in {"con", "capture"} -> {}
      [] \E x \in Settings : op \in {"get_" \o x, "set_" \o x} ->
            unread \ {x \in Settings : op \in {"get_" \o x, "set_" \o x}}
      [] OTHER -> unread

\* Whether an arm() that returned is still unused once op has ended with err:
\* arm() sets it when it returns, and con(), dis() and capture() clear it.
Armed(op, err) ==
    CASE op = "arm" -> err = "ok"
      [] op \in {"con", "dis", "capture"} -> FALSE
      [] OTHER -> arm_done

Done(s, op, arg, ret) ==
    /\ self' = s.self
    /\ unread' = Unread(op)
    /\ arm_done' = Armed(op, s.err)
    /\ inst' = s.inst
    /\ traffic' = s.traffic
    /\ last' = [op |-> op, arg |-> arg, out |-> s.err,
                ret |-> IF s.err = "ok" THEN ret ELSE <<>>]
    /\ pc' = "idle"
    /\ timeout' = FALSE
    /\ elapsed' = 0
    /\ polls' = 0

Connect(ip, opened, idn, f, cf) ==
    /\ pc = "idle"
    /\ Done(con(Exec(self, inst, <<>>, f), ip, opened, idn, cf), "con",
            [ip |-> ip, opened |-> opened, idn |-> idn, f |-> f, cf |-> cf], <<"True">>)

Disconnect(cf) ==
    /\ pc = "idle"
    /\ Done(dis(Exec(self, inst, <<>>, 0), cf), "dis", cf, <<"True">>)

Arm(k, f, cf) ==
    /\ pc = "idle"
    /\ Done(arm(Exec(self, inst, <<>>, f), k, cf), "arm",
            [k |-> k, f |-> f, cf |-> cf], <<>>)

GetEncoding(f) ==
    /\ pc = "idle"
    /\ LET s == get_wfm_encoding(Exec(self, inst, <<>>, f))
       IN  Done(s, "get_wfm_encoding", "", <<s.self._cached_wfm_encoding>>)

SetEncoding(value, f) ==
    /\ pc = "idle"
    /\ Done(set_wfm_encoding(Exec(self, inst, <<>>, f), value),
            "set_wfm_encoding", value, <<>>)

GetBinaryFormat(f) ==
    /\ pc = "idle"
    /\ LET s == get_wfm_binary_format(Exec(self, inst, <<>>, f))
       IN  Done(s, "get_wfm_binary_format", "", <<s.self._cached_wfm_format>>)

SetBinaryFormat(value, f) ==
    /\ pc = "idle"
    /\ Done(set_wfm_binary_format(Exec(self, inst, <<>>, f), value),
            "set_wfm_binary_format", value, <<>>)

GetByteNr(f) ==
    /\ pc = "idle"
    /\ LET s == get_wfm_byte_nr(Exec(self, inst, <<>>, f))
       IN  Done(s, "get_wfm_byte_nr", "", <<s.self._cached_wfm_byte_nr>>)

SetByteNr(value, f) ==
    /\ pc = "idle"
    /\ Done(set_wfm_byte_nr(Exec(self, inst, <<>>, f), value),
            "set_wfm_byte_nr", value, <<>>)

GetByteOrder(f) ==
    /\ pc = "idle"
    /\ LET s == get_wfm_byte_order(Exec(self, inst, <<>>, f))
       IN  Done(s, "get_wfm_byte_order", "", <<s.self._cached_wfm_order>>)

SetByteOrder(value, f) ==
    /\ pc = "idle"
    /\ Done(set_wfm_byte_order(Exec(self, inst, <<>>, f), value),
            "set_wfm_byte_order", value, <<>>)

GetSrc(f) ==
    /\ pc = "idle"
    /\ Done(get_src(Exec(self, inst, <<>>, f)), "get_src", "", <<>>)

SetSrc(value, f) ==
    /\ pc = "idle"
    /\ Done(set_src(Exec(self, inst, <<>>, f), value), "set_src", value, <<>>)

GetMode(f) ==
    /\ pc = "idle"
    /\ Done(get_mode(Exec(self, inst, <<>>, f)), "get_mode", "", <<>>)

SetMode(value, f) ==
    /\ pc = "idle"
    /\ Done(set_mode(Exec(self, inst, <<>>, f), value), "set_mode", value, <<>>)

\* timeout.setter
SetTimeout(value) ==
    /\ pc = "idle"
    /\ Done(Exec([self EXCEPT !._timeout = value], inst, <<>>, 0),
            "set_timeout", "", <<>>)

ClearCache ==
    /\ pc = "idle"
    /\ Done(Exec(clear_cache(self), inst, <<>>, 0), "_clear_cache", "", <<>>)

\* MSO4.get_last_trace
GetLastTrace ==
    /\ pc = "idle"
    /\ Done(Exec(self, inst, <<>>, 0), "get_last_trace", "", self.wfm_data_points)

\* capture() up to the first poll.
CaptureStart(f) ==
    /\ pc = "idle"
    /\ LET s == capture_check(Exec(self, inst, <<>>, f))
       IN  IF s.err # "ok" THEN Done(s, "capture", "", <<>>)
           ELSE /\ self' = s.self
                /\ inst' = s.inst
                /\ traffic' = s.traffic
                /\ last' = [op |-> "capture", arg |-> "", out |-> "running", ret |-> <<>>]
                /\ unread' = {}
                /\ arm_done' = FALSE
                /\ pc' = "trigwait"
                /\ timeout' = FALSE
                /\ elapsed' = 0
                /\ polls' = 0

\* Mutant: the data wait measures against a timestamp of its own, taken when
\* the trigger wait ends.
TrigPoll_restamp(line, f) ==
    /\ pc = "trigwait"
    /\ polls < MaxPolls
    /\ Len(traffic) < LogCap
    /\ LET s == Exec(self, inst, traffic, IF f = 0 THEN 0 ELSE Len(traffic) + f)
           q == Call(s, "TRIGger:STATE?", "", "")
           armed == contains(line, "armed")
           late == expired(elapsed, self._timeout)
           w == IF armed /\ late THEN Call(q, "TRIGger", "FORCe", "") ELSE q
       IN  IF w.err # "ok" THEN Done(w, "capture", "", <<>>)
           ELSE /\ self' = w.self
                /\ inst' = w.inst
                /\ traffic' = w.traffic
                /\ pc' = IF armed /\ ~late THEN "trigwait" ELSE "datawait"
                /\ timeout' = (armed /\ late)
                /\ polls' = polls + 1
                /\ elapsed' = IF armed /\ ~late THEN elapsed ELSE 0
                /\ UNCHANGED <<last, unread, arm_done>>

\* One iteration of `while 'armed' in self.sc.query('TRIGger:STATE?').lower()`.
\* line: the instrument's answer; f: 0, or which of this iteration's calls raises.
TrigPoll(line, f) ==
    /\ pc = "trigwait"
    /\ polls < MaxPolls
    /\ Len(traffic) < LogCap
    /\ LET s == Exec(self, inst, traffic, IF f = 0 THEN 0 ELSE Len(traffic) + f)
           q == Call(s, "TRIGger:STATE?", "", "")
           armed == contains(line, "armed")
           late == expired(elapsed, self._timeout)
           w == IF armed /\ late THEN Call(q, "TRIGger", "FORCe", "") ELSE q
       IN  IF w.err # "ok" THEN Done(w, "capture", "", <<>>)
           ELSE /\ self' = w.self
                /\ inst' = w.inst
                /\ traffic' = w.traffic
                /\ pc' = IF armed /\ ~late THEN "trigwait" ELSE "datawait"
                /\ timeout' = (armed /\ late)
                /\ polls' = polls + 1
                /\ UNCHANGED <<last, unread, elapsed, arm_done>>

\* Mutant: a waveform read that succeeds returns False whatever the trigger
\* wait did.
DataPoll_flag_dropped(line, data, f, exc) ==
    /\ pc = "datawait"
    /\ polls < MaxPolls
    /\ Len(traffic) < LogCap
    /\ LET s == [Exec(self, inst, traffic, IF f = 0 THEN 0 ELSE Len(traffic) + f)
                   EXCEPT !.exc = exc]
           q == Call(s, "DATa:SOUrce:AVAILable?", "", "")
           none == contains(line, "none")
           late == expired(elapsed, self._timeout)
       IN  IF q.err # "ok" THEN Done(q, "capture", "", <<>>)
           ELSE IF none /\ late THEN Done(q, "capture", "", <<"True">>)
           ELSE IF none
                THEN /\ self' = q.self
                     /\ inst' = q.inst
                     /\ traffic' = q.traffic
                     /\ polls' = polls + 1
                     /\ UNCHANGED <<last, unread, pc, timeout, elapsed, arm_done>>
           ELSE Done(capture_read(q, data), "capture", "", <<"False">>)

\* One iteration of `while 'none' in self.sc.query('DATa:SOUrce:AVAILable?').lower()`
\* and, when the loop ends, the rest of capture().  exc: the exception the
\* transport raises if it raises.
DataPoll(line, data, f, exc) ==
    /\ pc = "datawait"
    /\ polls < MaxPolls
    /\ Len(traffic) < LogCap
    /\ LET s == [Exec(self, inst, traffic, IF f = 0 THEN 0 ELSE Len(traffic) + f)
                   EXCEPT !.exc = exc]
           q == Call(s, "DATa:SOUrce:AVAILable?", "", "")
           none == contains(line, "none")
           late == expired(elapsed, self._timeout)
       IN  IF q.err # "ok" THEN Done(q, "capture", "", <<>>)
           ELSE IF none /\ late THEN Done(q, "capture", "", <<"True">>)
           ELSE IF none
                THEN /\ self' = q.self
                     /\ inst' = q.inst
                     /\ traffic' = q.traffic
                     /\ polls' = polls + 1
                     /\ UNCHANGED <<last, unread, pc, timeout, elapsed, arm_done>>
           ELSE Done(capture_read(q, data), "capture", "",
                     <<IF timeout THEN "True" ELSE "False">>)

\* The wall clock advances while capture() runs.  Past every timeout the
\* clock's value no longer matters and only the poll count is reset.
Tick ==
    /\ pc # "idle"
    /\ elapsed <= MaxTimeout \/ polls > 0
    /\ elapsed' = IF elapsed <= MaxTimeout THEN elapsed + 1 ELSE elapsed
    /\ polls' = 0
    /\ UNCHANGED <<self, inst, traffic, last, unread, pc, timeout, arm_done>>

\* Somebody changes the waveform-output settings at the instrument's front
\* panel, for one to the power-up defaults.
FrontPanel(i) ==
    /\ pc = "idle"
    /\ i # inst
    /\ inst' = i
    /\ traffic' = <<>>
    /\ last' = [op |-> "front_panel", arg |-> "", out |-> "ok", ret |-> <<>>]
    /\ UNCHANGED <<self, unread, pc, timeout, elapsed, polls, arm_done>>


\* ------------------------------------------------------------ input sets
Addresses == {"", "192.168.1.140"}
CloseFaults == {"none", "sc", "rm"}
TrigLines == {<<"ARMED", "\n">>, <<"TRIGGER", "\n">>}
AvailLines == {<<"NONE", "\n">>, <<"CH1", "\n">>}
Waveforms == {<<1>>, <<2, 3>>}
ReadFaults == {"VisaIOError", "VisaIOError/timeout"}

\* What the environment does to one con(): open_resource raises; or it
\* returns, the instrument answers idn, transport call f raises (0: none)
\* and close() cf raises should dis() run.
ConnectEnvs ==
    {[opened |-> FALSE, idn |-> <<"\n">>, f |-> 0, cf |-> "none"]}
    \cup [opened : {TRUE}, idn : IdnLines, f : {0}, cf : CloseFaults]
    \cup [opened : {TRUE},
          idn : {<<"TEKTRONIX", ",", "MSO44", ",", "C019654", ",", "FV:2.0.3.950", "\n">>},
          f : 1..10, cf : CloseFaults]

\* What the environment does to one arm(): the poll k that reports armed
\* (0: none), the transport call f that raises (0: none), cf as above.
ArmEnvs ==
    [k : 1..ArmRetries, f : {0}, cf : {"none"}]
    \cup [k : {0}, f : 0..(ArmRetries + 1), cf : CloseFaults]

\* --------------------------------------------------------- specifications
Init ==
    /\ self = NewMSO4
    /\ inst = InstDefault
    /\ traffic = <<>>
    /\ last = [op |-> "__init__", arg |-> "", out |-> "ok", ret |-> <<>>]
    /\ unread = {}
    /\ pc = "idle"
    /\ timeout = FALSE
    /\ elapsed = 0
    /\ polls = 0
    /\ arm_done = FALSE

\* The session lifecycle: connect, disconnect and arm under every fault of
\* the environment, with the source accessors as the configuration operation.
Next ==
    \/ \E ip \in Addresses, env \in ConnectEnvs :
          Connect(ip, env.opened, env.idn, env.f, env.cf)
    \/ \E cf \in CloseFaults : Disconnect(cf)
    \/ \E env \in ArmEnvs : Arm(env.k, env.f, env.cf)
    \/ \E f \in 0..1 : GetSrc(f)
    \/ \E v \in {"ch1", "math1"}, f \in 0..1 : SetSrc(v, f)

Spec == Init /\ [][Next]_vars

\* The capture pipeline on a session that connects without faults.
GoodIdn == <<"TEKTRONIX", ",", "MSO44", ",", "C019654", ",", "FV:2.0.3.950", "\n">>

CapNext ==
    \/ Connect("192.168.1.140", TRUE, GoodIdn, 0, "none")
    \/ Disconnect("none")
    \/ \E v \in {"ch1", "math1"} : SetSrc(v, 0)
    \/ \E v \in 0..MaxTimeout : SetTimeout(v)
    \/ ClearCache
    \/ GetLastTrace
    \/ \E f \in 0..4 : CaptureStart(f)
    \/ \E line \in TrigLines, f \in 0..2 : TrigPoll(line, f)
    \/ \E line \in AvailLines, data \in Waveforms, f \in 0..2, exc \in ReadFaults :
          DataPoll(line, data, f, exc)
    \/ Tick

CapSpec == Init /\ [][CapNext]_vars


\* The configuration accessors, with values in and out of every domain and
\* in either case, before and after a connect without faults; a transport
\* call of a waveform-setting accessor may raise.
ConfNext ==
    \/ Connect("192.168.1.140", TRUE, GoodIdn, 0, "none")
    \/ \E f \in 0..1 : GetEncoding(f)
    \/ \E v \in {"binary", "BINARY", "raw"}, f \in 0..1 : SetEncoding(v, f)
    \/ \E f \in 0..1 : GetBinaryFormat(f)
    \/ \E v \in {"ri", "RI", "f32"}, f \in 0..1 : SetBinaryFormat(v, f)
    \/ \E f \in 0..1 : GetByteNr(f)
    \/ \E v \in {[isint |-> TRUE, n |-> 2], [isint |-> TRUE, n |-> 4],
                 [isint |-> FALSE, n |-> 2]}, f \in 0..1 : SetByteNr(v, f)
    \/ \E f \in 0..1 : GetByteOrder(f)
    \/ \E v \in {"lsb", "LSB", "big"}, f \in 0..1 : SetByteOrder(v, f)
    \/ GetSrc(0)
    \/ \E v \in {"ch1", "math1"} : SetSrc(v, 0)
    \/ GetMode(0)
    \/ \E v \in {"sample", "fast"} : SetMode(v, 0)
    \/ ClearCache
    \/ FrontPanel(InstDefault)

ConfSpec == Init /\ [][ConfNext]_vars

\* capture() against an instrument that never reports data available, on a
\* transport that does not fail, for every timeout; the clock keeps ticking
\* and the polling thread keeps running.
LiveNext ==
    \/ Connect("192.168.1.140", TRUE, GoodIdn, 0, "none")
    \/ SetSrc("ch1", 0)
    \/ \E v \in 0..MaxTimeout : SetTimeout(v)
    \/ ClearCache
    \/ CaptureStart(0)
    \/ \E line \in TrigLines : TrigPoll(line, 0)
    \/ \E data \in Waveforms : DataPoll(<<"NONE", "\n">>, data, 0, "VisaIOError")
    \/ Tick

LiveSpec ==
    /\ Init
    /\ [][LiveNext]_vars
    /\ WF_vars(Tick)
    /\ WF_vars(\E line \in TrigLines : TrigPoll(line, 0))
    /\ WF_vars(\E data \in Waveforms : DataPoll(<<"NONE", "\n">>, data, 0, "VisaIOError"))


\* What the front panel may set the waveform output to besides the defaults:
\* four-byte floating point samples.
InstFloat == [enc |-> "binary", fmt |-> "fp", ord |-> "msb", nr |-> "4"]

\* Decoding: capture() under every configuration the setters and the
\* read-through from the instrument can establish, on a transport that does
\* not fail and against an instrument that triggers at once and always has
\* the waveform.
DecNext ==
    \/ Connect("192.168.1.140", TRUE, GoodIdn, 0, "none")
    \/ SetSrc("ch1", 0)
    \/ \E v \in {"binary", "ascii"} : SetEncoding(v, 0)
    \/ \E v \in {"ri", "rp", "fp"} : SetBinaryFormat(v, 0)
    \/ \E n \in {1, 2, 4, 8} : SetByteNr([isint |-> TRUE, n |-> n], 0)
    \/ \E v \in {"lsb", "msb"} : SetByteOrder(v, 0)
    \/ ClearCache
    \/ FrontPanel(InstFloat)
    \/ CaptureStart(0)
    \/ TrigPoll(<<"TRIGGER", "\n">>, 0)
    \/ \E data \in Waveforms : DataPoll(<<"CH1", "\n">>, data, 0, "VisaIOError")

DecSpec == Init /\ [][DecNext]_vars

\* The waveform buffer: every operation that could touch it.  Captures that
\* succeed, time out in either wait, fail in the decode (binary format fp at
\* width 2) or on a transport fault, between arm(), the setters,
\* _clear_cache() and get_last_trace().
BufNext ==
    \/ Connect("192.168.1.140", TRUE, GoodIdn, 0, "none")
    \/ SetSrc("ch1", 0)
    \/ SetMode("hires", 0)
    \/ SetEncoding("binary", 0)
    \/ \E v \in {"ri", "fp"} : SetBinaryFormat(v, 0)
    \/ SetByteNr([isint |-> TRUE, n |-> 2], 0)
    \/ SetByteOrder("msb", 0)
    \/ SetTimeout(0)
    \/ ClearCache
    \/ \E k \in {0, 1} : Arm(k, 0, "none")
    \/ GetLastTrace
    \/ CaptureStart(0)
    \/ \E line \in TrigLines : TrigPoll(line, 0)
    \/ \E line \in AvailLines, data \in Waveforms, f \in {0, 2} :
          DataPoll(line, data, f, "VisaIOError")
    \/ Tick

BufSpec == Init /\ [][BufNext]_vars

\* ------------------------------------------------------------- properties
\* An operation other than capture() starts and ends in one step.
OneStep == pc = "idle" /\ pc' = "idle" /\ last'.op # "front_panel"

\* C1: while connection status is disconnected, no operation other than
\* connect puts a command or a query on the wire.
C1_NoTrafficWhileDisconnected ==
    [][(OneStep /\ ~self.connectStatus /\ last'.op # "con") => traffic' = <<>>]_vars

\* C2: a connect that fails after the transport was opened (the identity
\* query raises, the identity line has not 4 fields, vendor or model is not
\* allowed, a setup call raises) leaves the transport and the resource
\* manager closed and the status disconnected.
C2_FailedConnectClosesTransport ==
    (/\ last.op = "con"
     /\ last.arg.opened
     /\ last.out \in {"VisaIOError", "OSError/idn", "OSError/vendor", "OSError/model"})
    => (self.sc # "open" /\ self.rm # "open" /\ ~self.connectStatus)


\* Some waveform setting's cache entry holds the "unknown" sentinel.
SomeUnknown ==
    \/ self._cached_wfm_byte_nr = 0
    \/ self._cached_wfm_format = ""
    \/ self._cached_wfm_order = ""
    \/ self._cached_wfm_encoding = ""

\* C3: capture() called with no source selected, or with the cache entry of
\* encoding, binary format, byte order or byte width unknown, fails with a
\* precondition error and puts nothing on the wire.  (Any exception is taken
\* for the precondition error here: the claim already fails on the traffic.)
C3_CaptureFailsFastUnconfigured ==
    [][(/\ pc = "idle"
        /\ last'.op = "capture"
        /\ (self._src = "" \/ SomeUnknown))
       => (/\ pc' = "idle"
           /\ last'.out # "ok"
           /\ traffic' = <<>>)]_vars

\* C7: after _clear_cache() the waveform buffer is empty.
C7_ClearCacheEmptiesBuffer ==
    last.op = "_clear_cache" => self.wfm_data_points = <<>>


\* C4: setting a cached waveform setting to a value equal to the cached one,
\* compared without regard to case as the domain validation compares, puts
\* no write on the wire.
C4_EqualSetIssuesNoWrite ==
    [][(/\ OneStep
        /\ \/ /\ last'.op = "set_wfm_encoding"
              /\ self._cached_wfm_encoding # ""
              /\ lower(last'.arg) = lower(self._cached_wfm_encoding)
           \/ /\ last'.op = "set_wfm_binary_format"
              /\ self._cached_wfm_format # ""
              /\ lower(last'.arg) = lower(self._cached_wfm_format)
           \/ /\ last'.op = "set_wfm_byte_order"
              /\ self._cached_wfm_order # ""
              /\ lower(last'.arg) = lower(self._cached_wfm_order)
           \/ /\ last'.op = "set_wfm_byte_nr"
              /\ last'.arg.isint
              /\ self._cached_wfm_byte_nr # 0
              /\ last'.arg.n = self._cached_wfm_byte_nr)
       => traffic' = <<>>]_vars

\* The setter op is given a value outside the declared domain of its setting.
OutOfDomain(op, arg) ==
    \/ op = "set_src" /\ lower(arg) \notin sources
    \/ op = "set_mode" /\ lower(arg) \notin modes
    \/ op = "set_wfm_encoding" /\ lower(arg) \notin wfm_encodings
    \/ op = "set_wfm_binary_format" /\ lower(arg) \notin wfm_binary_formats
    \/ op = "set_wfm_byte_order" /\ lower(arg) \notin wfm_byte_orders
    \/ op = "set_wfm_byte_nr" /\ (~arg.isint \/ arg.n \notin wfm_byte_nrs)

\* C5: a setter given a value outside the declared domain of its setting
\* raises ValueError, puts nothing on the wire and leaves the object (the
\* stored and cached values with it) and the instrument as they were.
C5_OutOfDomainRejected ==
    [][(OneStep /\ OutOfDomain(last'.op, last'.arg))
       => (/\ last'.out = "ValueError"
           /\ traffic' = <<>>
           /\ self' = self
           /\ inst' = inst)]_vars

\* C5 witness: on a connected session with byte width 2 cached, the byte
\* width setter has rejected 4.
C5_Witness ==
    /\ self.connectStatus
    /\ last.op = "set_wfm_byte_nr"
    /\ last.arg = [isint |-> TRUE, n |-> 4]
    /\ last.out = "ValueError"
    /\ self._cached_wfm_byte_nr = 2

\* The query a getter sends.
QueryOf(x) ==
    CASE x = "wfm_encoding" -> "WFMOutpre:ENCdg?"
      [] x = "wfm_binary_format" -> "WFMOutpre:BN_Fmt?"
      [] x = "wfm_byte_nr" -> "WFMOutpre:BYT_Nr?"
      [] x = "wfm_byte_order" -> "WFMOutpre:BYT_Or?"

C8_CaptureTimesOut ==
    (pc # "idle")
    ~> (pc = "idle" /\ last.op = "capture" /\ last.out = "ok" /\ last.ret = <<"True">>)

\* C8 witness: with timeout 0 a capture() has returned timed out after it
\* waited for the trigger until the deadline and forced it.
C8_Witness ==
    /\ pc = "idle"
    /\ last.op = "capture"
    /\ last.out = "ok"
    /\ last.ret = <<"True">>
    /\ self._timeout = 0
    /\ \E i \in 1..Len(traffic) : traffic[i].c = "TRIGger"


\* C9: arm() on a connected session, the transport not raising, sends the
\* acquire-start command once and then polls ACQuire:STATE? at most 10
\* times; if a poll reports armed it returns with the session connected, and
\* if none does it raises the arm failure with the status disconnected.
C9_ArmPollsThenDisconnects ==
    (last.op = "arm" /\ last.out # "OSError/notconnected" /\ last.arg.f = 0)
    => /\ Len(traffic) >= 1
       /\ traffic[1] = [c |-> "ACQuire:STATE", a |-> "1", e |-> ""]
       /\ Len(traffic) - 1 <= ArmRetries
       /\ \A i \in 2..Len(traffic) : traffic[i].c = "ACQuire:STATE?"
       /\ last.arg.k >= 1
             => (last.out = "ok" /\ self.connectStatus /\ Len(traffic) = 1 + last.arg.k)
       /\ last.arg.k = 0
             => (last.out = "OSError/arm" /\ ~self.connectStatus)

\* C10: dis() on a session that holds a transport leaves the status
\* disconnected and releases the transport and the resource manager, also
\* when a close() raises: the other resource is still released.
C10_DisconnectAlwaysClears ==
    (last.op = "dis" /\ self.sc # "none")
    => /\ ~self.connectStatus
       /\ last.arg # "sc" => self.sc # "open"
       /\ last.arg # "rm" => self.rm # "open"

\* The wire log holds the forced trigger / the waveform read.
ForceSent(t) == \E i \in 1..Len(t) : t[i].c = "TRIGger" /\ t[i].a = "FORCe"
CurveSent(t) == \E i \in 1..Len(t) : t[i].c = "CURVE?"

\* Exceptions of the transport (pyvisa), as opposed to those capture() raises.
TransportErrors ==
    {"VisaIOError", "VisaIOError/timeout", "InvalidSession", "AttributeError"}

\* C11: capture() reports timeouts as its return value.  A poll of the
\* trigger wait forces the trigger only past the deadline and polls on only
\* before it;
\* the trigger wait never ends capture() other than by an exception of the
\* transport; a capture() that returns, returns True exactly when the trigger
\* was forced or the data wait ended past the deadline without a waveform
\* read, and False exactly when the trigger was not forced and the waveform
\* was read.
C11_TimeoutIsReturnValue ==
    /\ [](pc = "datawait" => (timeout <=> ForceSent(traffic)))
    /\ [](pc = "trigwait" => ~ForceSent(traffic))
    /\ [][(pc = "trigwait" /\ (traffic' # traffic \/ pc' # pc))
          => /\ ForceSent(traffic') => elapsed > self._timeout
             /\ pc' = "trigwait" => elapsed <= self._timeout
             /\ pc' = "idle" => last'.out \in TransportErrors]_vars
    /\ [][(pc = "datawait" /\ pc' = "idle" /\ last'.out = "ok")
          => /\ last'.ret \in {<<"True">>, <<"False">>}
             /\ last'.ret = <<"True">> <=> (timeout \/ ~CurveSent(traffic'))
             /\ last'.ret = <<"False">> <=> (~timeout /\ CurveSent(traffic'))
             /\ ~CurveSent(traffic') => elapsed > self._timeout
             /\ CurveSent(traffic') => self'.wfm_data_points # <<>>]_vars

\* C11 witness: a capture() has returned True after the trigger wait timed
\* out, the trigger was forced and the waveform read succeeded.
C11_Witness ==
    /\ pc = "idle"
    /\ last.op = "capture"
    /\ last.out = "ok"
    /\ last.ret = <<"True">>
    /\ ForceSent(traffic)
    /\ CurveSent(traffic)
    /\ self.wfm_data_points # <<>>

\* C12: when the transport raises a timeout during the waveform read of
\* capture(), capture() returns the timed-out result: the timeout does not
\* leave capture() as an exception.
C12_DecodeTimeoutIsResult ==
    (pc = "idle" /\ last.op = "capture" /\ CurveSent(traffic))
    => last.out # "VisaIOError/timeout"

\* C13: a capture() that reaches the decode with the encoding ascii, or with
\* a (byte width, binary format) pair that is not in the decode table, fails
\* with the unsupported-encoding error, the same in both cases, and leaves
\* the object (waveform buffer and configuration cache) as it was.
C13_UnsupportedEncodingOneKind ==
    [][(/\ pc = "datawait"
        /\ pc' = "idle"
        /\ last'.out \notin TransportErrors
        /\ \/ self._cached_wfm_encoding = "ascii"
           \/ types(self._cached_wfm_byte_nr, self._cached_wfm_format) = "")
       => (last'.out = "IOError/encoding" /\ self' = self)]_vars

\* C14: every byte width of the decode table (1, 2, 4, 8) can be established
\* through the byte-width setter on a connected session: the setter accepts
\* it and the cache holds it afterwards.
C14_TableWidthsSettable ==
    (/\ last.op = "set_wfm_byte_nr"
     /\ last.arg.isint
     /\ last.arg.n \in {1, 2, 4, 8}
     /\ self.sc = "open")
    => (last.out = "ok" /\ self._cached_wfm_byte_nr = last.arg.n)

\* C15: the waveform buffer is empty on a new object and changes only in a
\* capture() whose waveform read succeeds, which leaves exactly the decoded
\* samples in it; every other operation (captures that time out or fail,
\* arm(), the setters, _clear_cache()) leaves it as it was, and
\* get_last_trace() returns it, puts nothing on the wire and changes nothing.
C15_BufferChangesOnlyOnRead ==
    /\ [](last.op = "__init__" => self.wfm_data_points = <<>>)
    /\ [][self'.wfm_data_points # self.wfm_data_points
          => /\ pc = "datawait"
             /\ last'.op = "capture"
             /\ last'.out = "ok"
             /\ CurveSent(traffic')]_vars
    /\ [][(pc = "datawait" /\ pc' = "idle" /\ last'.out = "ok" /\ CurveSent(traffic'))
          => self'.wfm_data_points \in Waveforms]_vars
    /\ [][(OneStep /\ last'.op = "get_last_trace")
          => /\ last'.out = "ok"
             /\ last'.ret = self.wfm_data_points
             /\ traffic' = <<>>
             /\ self' = self
             /\ inst' = inst]_vars

\* C15 witness: a capture() has timed out in the data wait, without a
\* waveform read, and the samples of an earlier capture are still in the buffer.
C15_Witness ==
    /\ pc = "idle"
    /\ last.op = "capture"
    /\ last.out = "ok"
    /\ last.ret = <<"True">>
    /\ ~CurveSent(traffic)
    /\ self.wfm_data_points = <<2, 3>>

\* The wire log holds the write of command c with argument a.
Wrote(t, c, a) == \E i \in 1..Len(t) : t[i].c = c /\ t[i].a = a

\* C16: every connect() that succeeds on a disconnected session, also one
\* on an object that was connected and disconnected before, puts on the wire
\* the four writes that pin the waveform output to binary, signed integer,
\* least significant byte first, 2 bytes.
C16_ConnectWritesBaseline ==
    [][(OneStep /\ ~self.connectStatus /\ last'.op = "con" /\ last'.out = "ok")
       => /\ Wrote(traffic', "WFMOutpre:ENCdg", "binary")
          /\ Wrote(traffic', "WFMOutpre:BN_Fmt", "ri")
          /\ Wrote(traffic', "WFMOutpre:BYT_Or", "lsb")
          /\ Wrote(traffic', "WFMOutpre:BYT_Nr", "2")]_vars

\* C17: the waveform source and the acquisition mode are cached like the other
\* settings: a read right after a set or a read that succeeded sends no
\* query, and a set to the value just set sends no write.
C17_SrcModeCached ==
    [][(OneStep /\ last.out = "ok")
       => /\ (last.op \in {"set_src", "get_src"} /\ last'.op = "get_src")
             => traffic' = <<>>
          /\ (last.op \in {"set_mode", "get_mode"} /\ last'.op = "get_mode")
             => traffic' = <<>>
          /\ (last.op = "set_src" /\ last'.op = "set_src" /\ last'.arg = last.arg)
             => traffic' = <<>>
          /\ (last.op = "set_mode" /\ last'.op = "set_mode" /\ last'.arg = last.arg)
             => traffic' = <<>>]_vars

\* C18: whenever connect() is given an address, opens a transport and then
\* fails (the close() calls not raising), the status is disconnected
\* afterwards, also when the session was connected before the call: the
\* status is never connected over a transport whose identity was not verified.
C18_ConnectedOnlyIfVerified ==
    (/\ last.op = "con"
     /\ last.arg.ip # ""
     /\ last.arg.opened
     /\ last.arg.cf = "none"
     /\ last.out # "ok")
    => ~self.connectStatus

\* C19: when the wire write of a waveform-setting setter, given a value of
\* the setting's domain, raises, the cache of the setting does not hold the
\* new value afterwards.
C19_FailedWriteNotCached ==
    [][(OneStep /\ last'.out \in TransportErrors /\ traffic' # <<>>)
       => /\ (last'.op = "set_wfm_encoding" /\ last'.arg \in wfm_encodings)
             => self'._cached_wfm_encoding # last'.arg
          /\ (last'.op = "set_wfm_binary_format" /\ last'.arg \in wfm_binary_formats)
             => self'._cached_wfm_format # last'.arg
          /\ (last'.op = "set_wfm_byte_order" /\ last'.arg \in wfm_byte_orders)
             => self'._cached_wfm_order # last'.arg
          /\ last'.op = "set_wfm_byte_nr"
             => self'._cached_wfm_byte_nr # last'.arg.n]_vars

\* Data-availability polls in the wire log.
RECURSIVE AvailPolls(_)
AvailPolls(t) ==
    IF t = <<>> THEN 0
    ELSE (IF Head(t).c = "DATa:SOUrce:AVAILable?" THEN 1 ELSE 0) + AvailPolls(Tail(t))

\* C20: both waits of one capture() measure against the one timestamp taken
\* at its start: the clock is not reset between the waits; a data poll made
\* past the deadline ends capture(), and when it reports no data capture()
\* returns True without a waveform read; so after a forced trigger the data
\* wait goes on after no poll, and capture() ends after at most one.
C20_OneTimestampBothWaits ==
    /\ [][(pc = "trigwait" /\ pc' = "datawait") => elapsed' = elapsed]_vars
    /\ [][(pc = "datawait" /\ traffic' # traffic /\ elapsed > self._timeout)
          => /\ pc' = "idle"
             /\ ~CurveSent(traffic') => (last'.out = "ok" => last'.ret = <<"True">>)]_vars
    /\ [](pc = "datawait" /\ ForceSent(traffic) => AvailPolls(traffic) = 0)
    /\ []((pc = "idle" /\ last.op = "capture" /\ ForceSent(traffic))
          => AvailPolls(traffic) <= 1)

\* C20 witness: after a forced trigger, capture() has returned True on its
\* one data poll, which reported no data, without a waveform read.
C20_Witness ==
    /\ pc = "idle"
    /\ last.op = "capture"
    /\ last.out = "ok"
    /\ last.ret = <<"True">>
    /\ ForceSent(traffic)
    /\ AvailPolls(traffic) = 1
    /\ ~CurveSent(traffic)
    /\ self._timeout = DefaultTimeout

\* C21: capture() enters the trigger wait only if arm() has returned in the
\* current connected session since the previous capture(); a capture() with
\* no such arm() before it ends without polling the trigger state.
C21_TrigWaitOnlyAfterArm ==
    [][(pc = "idle" /\ last'.op = "capture" /\ ~arm_done)
       => (/\ pc' = "idle"
           /\ \A i \in 1..Len(traffic') : traffic'[i].c # "TRIGger:STATE?")]_vars

====
